---- MODULE Spec2Model ----
(***************************************************************************)
(* Product model of service/models.py: the Product record, its Category   *)
(* enumeration, serialize / deserialize, and the create / update / delete *)
(* / find operations on the SQLAlchemy session.                           *)
(*                                                                         *)
(* Python values are tagged records, so that values of different Python   *)
(* types can be told apart:                                                *)
(*   None            [t |-> "null"]                                        *)
(*   True / False    [t |-> "bool", b |-> TRUE]                            *)
(*   an int          [t |-> "int",  n |-> 3]                               *)
(*   a str           [t |-> "str",  s |-> "abc"]                           *)
(*   a list          [t |-> "list", items |-> <<..values..>>]              *)
(*   a dict          [t |-> "dict", items |-> [name |-> ..., ...]]         *)
(*   a Decimal       [t |-> "dec", special, sign, int, exp]                *)
(*   a Category      [t |-> "cat",  name |-> "FOOD"]                       *)
(*   the value of the attribute __doc__ of the class Category             *)
(*                   [t |-> "obj",  s |-> "__doc__"]                       *)
(*   a Query         [t |-> "query", op, column, value]                    *)
(***************************************************************************)
EXTENDS Integers, Sequences, FiniteSets, TLC

\* ---------------------------------------------------------------- bounds
NumProducts == 2
MaxId == 3
MaxPreset == 1
MaxPriceLen == 3
MaxDigits == 2
MaxExp == 1
MaxNegExp == 7

\* ---------------------------------------------------------------- values
None == [t |-> "null"]
Bool(b) == [t |-> "bool", b |-> b]
Int_(n) == [t |-> "int", n |-> n]
Str(s) == [t |-> "str", s |-> s]
List(items) == [t |-> "list", items |-> items]
Dict(items) == [t |-> "dict", items |-> items]
Obj(s) == [t |-> "obj", s |-> s]

\* An exception raised in place of a value.
Raise(exc) == [t |-> "raise", exc |-> exc]
Raised(v) == v.t = "raise"

IsStr(v) == v.t = "str"

\* isinstance(v, int): a bool is an int.
IsInt(v) == v.t \in {"int", "bool"}
IntValue(v) == IF v.t = "bool" THEN (IF v.b THEN 1 ELSE 0) ELSE v.n

\* The name of the type of a value, as error messages give it.
TypeName(v) ==
    CASE v.t = "null" -> "NoneType"
      [] v.t = "bool" -> "bool"
      [] v.t = "int" -> "int"
      [] v.t = "str" -> "str"
      [] v.t = "list" -> "list"
      [] v.t = "dict" -> "dict"
      [] v.t = "dec" -> "decimal.Decimal"
      [] v.t = "cat" -> "Category"

\* The characters of a string, and the string of a sequence of characters.
CharsOf(s) == [i \in 1..Len(s) |-> SubSeq(s, i, i)]

RECURSIVE Join(_)
Join(c) == IF Len(c) = 0 THEN "" ELSE c[1] \o Join(Tail(c))

\* The str made of the characters c.
Chars(c) == Str(Join(c))

\* The attributes of the class Category whose value is false: an empty
\* dict, 0, None, an empty list, False and None.
FalsyClassAttributes ==
    {"__annotations__", "__itemsize__", "__text_signature__",
     "_unhashable_values_", "_use_args_", "_value_repr_"}

\* Python truthiness, as bool(x) and `not x` compute it: None, False, 0, a
\* Decimal that is zero, and an empty str, list or dict are false; every
\* other value (a NaN or an infinity, an enum member) is true; an attribute
\* of the class Category is what its value is.
Truthy(v) ==
    CASE v.t = "null" -> FALSE
      [] v.t = "bool" -> v.b
      [] v.t = "int" -> v.n # 0
      [] v.t = "str" -> v.s # ""
      [] v.t = "list" -> Len(v.items) > 0
      [] v.t = "dict" -> DOMAIN v.items # {}
      [] v.t = "dec" -> v.special # "" \/ v.int # <<"0">>
      [] v.t = "cat" -> TRUE
      [] v.t = "obj" -> v.s \notin FalsyClassAttributes

\* -------------------------------------------------------------- Category
CategoryNames == {"UNKNOWN", "CLOTHS", "FOOD", "HOUSEWARES", "AUTOMOTIVE", "TOOLS"}

Cat(name) == [t |-> "cat", name |-> name]

Category == {Cat(n) : n \in CategoryNames}

\* The names, other than the members', that getattr resolves on the class
\* Category: the attributes of the class, of Enum and object, and of the
\* metaclass EnumType and type (CPython 3.11). "name" and "value" are not
\* among them: on the class they raise AttributeError.
ClassAttributes ==
    {"__annotations__", "__base__", "__bases__", "__basicsize__", "__bool__",
     "__call__", "__class__", "__contains__", "__copy__", "__deepcopy__",
     "__delattr__", "__dict__", "__dictoffset__", "__dir__", "__doc__",
     "__eq__", "__flags__", "__format__", "__ge__", "__getattr__",
     "__getattribute__", "__getitem__", "__getstate__", "__gt__", "__hash__",
     "__init__", "__init_subclass__", "__instancecheck__", "__itemsize__",
     "__iter__", "__le__", "__len__", "__lt__", "__members__", "__module__",
     "__mro__", "__name__", "__ne__", "__new__", "__or__", "__prepare__",
     "__qualname__", "__reduce__", "__reduce_ex__", "__repr__",
     "__reversed__", "__ror__", "__setattr__", "__sizeof__", "__str__",
     "__subclasscheck__", "__subclasses__", "__subclasshook__",
     "__text_signature__", "__weakref__", "__weakrefoffset__",
     "_check_for_existing_members_", "_convert_", "_create_",
     "_find_data_repr_", "_find_data_type_", "_find_new_",
     "_generate_next_value_", "_get_mixins_", "_member_map_",
     "_member_names_", "_member_type_", "_missing_", "_new_member_",
     "_unhashable_values_", "_use_args_", "_value2member_map_",
     "_value_repr_", "mro"}

\* --------------------------------------------------------------- Decimal
\* decimal.Decimal as the standard library keeps it: a sign, the coefficient's
\* digits and an exponent (special is "" for a finite number).
Dec(sign, int, exp) == [t |-> "dec", special |-> "", sign |-> sign, int |-> int, exp |-> exp]
DecSpecial(kind, sign, int) == [t |-> "dec", special |-> kind, sign |-> sign, int |-> int, exp |-> 0]

\* The decimal digits the constructor reads: the ASCII digits and the digits
\* 0..9 of other scripts, those a string of this module can be written with
\* (Extended Arabic-Indic, NKo, Bengali, Gujarati, Tamil, Kannada, Sinhala,
\* Lao, Myanmar Shan, Khmer, New Tai Lue, Tai Tham Hora, Tai Tham Tham,
\* Sundanese, Saurashtra, Javanese, Myanmar Tai Laing, Meetei Mayek).
DigitRows ==
    <<"0123456789",
      "۰۱۲۳۴۵۶۷۸۹",
      "߀߁߂߃߄߅߆߇߈߉",
      "০১২৩৪৫৬৭৮৯",
      "૦૧૨૩૪૫૬૭૮૯",
      "௦௧௨௩௪௫௬௭௮௯",
      "೦೧೨೩೪೫೬೭೮೯",
      "෦෧෨෩෪෫෬෭෮෯",
      "໐໑໒໓໔໕໖໗໘໙",
      "႐႑႒႓႔႕႖႗႘႙",
      "០១២៣៤៥៦៧៨៩",
      "᧐᧑᧒᧓᧔᧕᧖᧗᧘᧙",
      "᪀᪁᪂᪃᪄᪅᪆᪇᪈᪉",
      "᪐᪑᪒᪓᪔᪕᪖᪗᪘᪙",
      "᮰᮱᮲᮳᮴᮵᮶᮷᮸᮹",
      "꣐꣑꣒꣓꣔꣕꣖꣗꣘꣙",
      "꧐꧑꧒꧓꧔꧕꧖꧗꧘꧙",
      "꧰꧱꧲꧳꧴꧵꧶꧷꧸꧹",
      "꯰꯱꯲꯳꯴꯵꯶꯷꯸꯹">>

\* The value of each digit.
DigitTable ==
    [c \in {SubSeq(DigitRows[r], k, k) : r \in 1..Len(DigitRows), k \in 1..10} |->
        CHOOSE v \in 0..9 : \E r \in 1..Len(DigitRows) : SubSeq(DigitRows[r], v + 1, v + 1) = c]

Digits == DOMAIN DigitTable

DigitVal(c) == DigitTable[c]

DigitChar(n) ==
    CASE n = 0 -> "0" [] n = 1 -> "1" [] n = 2 -> "2" [] n = 3 -> "3" [] n = 4 -> "4"
      [] n = 5 -> "5" [] n = 6 -> "6" [] n = 7 -> "7" [] n = 8 -> "8" [] n = 9 -> "9"

RECURSIVE DigitsToNat(_)
DigitsToNat(ds) ==
    IF Len(ds) = 0 THEN 0
    ELSE 10 * DigitsToNat(SubSeq(ds, 1, Len(ds) - 1)) + DigitVal(ds[Len(ds)])

RECURSIVE NatToDigits(_)
NatToDigits(n) ==
    IF n < 10 THEN <<DigitChar(n)>>
    ELSE NatToDigits(n \div 10) \o <<DigitChar(n % 10)>>

\* "%+d" % n
SignedDigits(n) == IF n < 0 THEN <<"-">> \o NatToDigits(0 - n) ELSE <<"+">> \o NatToDigits(n)

Zeros(n) == [i \in 1..n |-> "0"]

\* str(int(digits)) for a non-empty string of digits: leading zeros go.
StripLeadingZeros(ds) ==
    LET nz == {i \in 1..Len(ds) : ds[i] # "0"}
    IN  IF nz = {} THEN <<"0">>
        ELSE SubSeq(ds, CHOOSE i \in nz : \A j \in nz : i <= j, Len(ds))

\* The whitespace characters str.strip() and Decimal() remove, those a
\* string of this module can be written with: space, tab, newline, form
\* feed, carriage return, then the vertical tab 0x0b, the separators 0x1c,
\* 0x1d, 0x1e and 0x1f, the next line 0x85, the no-break space 0xa0 and the
\* Ogham space mark 0x1680.
Whitespace ==
    {" ", "\t", "\n", "\f", "\r",
     "", "", "", "", "", "", " ", " "}

\* s.strip(chars): the characters of the set off both ends.
StripChars(s, chars) ==
    LET ns == {i \in 1..Len(s) : s[i] \notin chars}
    IN  IF ns = {} THEN <<>>
        ELSE SubSeq(s, CHOOSE i \in ns : \A j \in ns : i <= j,
                       CHOOSE i \in ns : \A j \in ns : i >= j)

\* s.strip(): whitespace off both ends.
Strip(s) == StripChars(s, Whitespace)

RemoveUnderscores(s) == SelectSeq(s, LAMBDA c : c # "_")

\* The constructor reads a digit of any script as the ASCII digit of its value.
AsciiDigits(s) == [i \in 1..Len(s) |-> IF s[i] \in Digits THEN DigitChar(DigitVal(s[i])) ELSE s[i]]

\* The parser matches Inf, Infinity and NaN whatever their case.
LowerChar(c) ==
    CASE c = "I" -> "i" [] c = "N" -> "n" [] c = "F" -> "f" [] c = "A" -> "a"
      [] c = "T" -> "t" [] c = "Y" -> "y" [] c = "S" -> "s" [] c = "E" -> "e"
      [] OTHER -> c

Lower(s) == [i \in 1..Len(s) |-> LowerChar(s[i])]

IsDigits(s) == \A i \in 1..Len(s) : s[i] \in Digits

\* The exponent group of the grammar, (E[-+]?\d+)?, on the rest x of the
\* string: whether it matches, and the exponent it gives.
ExpMatches(x) ==
    \/ Len(x) = 0
    \/ /\ Len(x) >= 2
       /\ x[1] \in {"E", "e"}
       /\ IF x[2] \in {"-", "+"}
          THEN Len(x) >= 3 /\ IsDigits(SubSeq(x, 3, Len(x)))
          ELSE IsDigits(SubSeq(x, 2, Len(x)))

ExpValue(x) ==
    IF Len(x) = 0 THEN 0
    ELSE IF x[2] = "-" THEN 0 - DigitsToNat(SubSeq(x, 3, Len(x)))
    ELSE IF x[2] = "+" THEN DigitsToNat(SubSeq(x, 3, Len(x)))
    ELSE DigitsToNat(SubSeq(x, 2, Len(x)))

\* The finite alternative of the grammar, (?=\d|\.\d) \d* (\.\d*)? (E[-+]?\d+)? \Z,
\* matches r with the integer part r[1..a] and the fractional group r[a+1..b].
FiniteMatches(r, a, b) ==
    /\ a <= b
    /\ IsDigits(SubSeq(r, 1, a))
    /\ b > a => (r[a + 1] = "." /\ IsDigits(SubSeq(r, a + 2, b)))
    /\ a > 0 \/ b >= a + 2
    /\ b = a => (a = Len(r) \/ r[a + 1] # ".")
    /\ ExpMatches(SubSeq(r, b + 1, Len(r)))

\* The Decimal of a finite match: int = str(int(intpart + fracpart)),
\* exp = exponent - len(fracpart).
FiniteDecimal(sign, r, a, b) ==
    Dec(sign,
        StripLeadingZeros(SubSeq(r, 1, a) \o SubSeq(r, a + 2, b)),
        ExpValue(SubSeq(r, b + 1, Len(r))) - (IF b > a THEN b - a - 1 ELSE 0))

\* The NaN alternative, s?NaN\d*, on the lower-cased string.
NaNMatches(low) ==
    /\ Len(low) >= 3
    /\ SubSeq(low, 1, 3) = <<"n", "a", "n">>
    /\ IsDigits(SubSeq(low, 4, Len(low)))

\* The diagnostic digits of a NaN: str(int(diag or '0')).lstrip('0').
NaNDiag(low) ==
    IF Len(low) = 3 \/ StripLeadingZeros(SubSeq(low, 4, Len(low))) = <<"0">> THEN <<>>
    ELSE StripLeadingZeros(SubSeq(low, 4, Len(low)))

\* The grammar after the sign:
\*   ( (?=\d|\.\d) \d* (\.\d*)? (E[-+]?\d+)? | Inf(inity)? | s?NaN\d* ) \Z
ParseUnsigned(sign, r) ==
    IF \E a \in 0..Len(r), b \in 0..Len(r) : FiniteMatches(r, a, b)
    THEN LET ab == CHOOSE ab \in (0..Len(r)) \X (0..Len(r)) : FiniteMatches(r, ab[1], ab[2])
         IN  FiniteDecimal(sign, r, ab[1], ab[2])
    ELSE IF Lower(r) \in {<<"i", "n", "f">>, <<"i", "n", "f", "i", "n", "i", "t", "y">>}
        THEN DecSpecial("Infinity", sign, <<"0">>)
    ELSE IF NaNMatches(Lower(r)) THEN DecSpecial("NaN", sign, NaNDiag(Lower(r)))
    ELSE IF Len(r) > 0 /\ Lower(r)[1] = "s" /\ NaNMatches(Tail(Lower(r)))
        THEN DecSpecial("sNaN", sign, NaNDiag(Tail(Lower(r))))
    ELSE Raise("InvalidOperation")

\* The optional sign, [-+]?, in front.
ParseSigned(v) ==
    IF Len(v) > 0 /\ v[1] = "-" THEN ParseUnsigned(1, Tail(v))
    ELSE IF Len(v) > 0 /\ v[1] = "+" THEN ParseUnsigned(0, Tail(v))
    ELSE ParseUnsigned(0, v)

\* Decimal(<str>): the parse of value.strip().replace("_", "") by decimal's
\* numeric-string grammar, the digits read as ASCII digits. The result is a
\* Decimal, or the exception raised.
ParseDecimal(s) == ParseSigned(AsciiDigits(RemoveUnderscores(Strip(CharsOf(s)))))

\* A digit of a coefficient given as a sequence: an int in 0..9.
IsDigitValue(v) == IsInt(v) /\ IntValue(v) \in 0..9

\* The digits of a coefficient given as a sequence, as characters.
DigitChars(items) == [i \in 1..Len(items) |-> DigitChar(IntValue(items[i]))]

\* Decimal(<list or tuple>): the sequence must be (sign, digits, exponent),
\* the sign an int 0 or 1, the digits a sequence of ints in 0..9, the
\* exponent an int, or 'F' (an infinity), 'n' (a NaN) or 'N' (an sNaN);
\* anything else is a ValueError. Leading zeros of the digits go.
DecimalFromSequence(items) ==
    IF Len(items) # 3 THEN Raise("ValueError")
    ELSE IF ~(IsInt(items[1]) /\ IntValue(items[1]) \in {0, 1}) THEN Raise("ValueError")
    ELSE IF items[2].t # "list" THEN Raise("ValueError")
    ELSE IF \E i \in 1..Len(items[2].items) : ~IsDigitValue(items[2].items[i])
        THEN Raise("ValueError")
    ELSE IF IsStr(items[3])
        THEN CASE items[3].s = "F" -> DecSpecial("Infinity", IntValue(items[1]), <<"0">>)
               [] items[3].s = "n" ->
                    DecSpecial("NaN", IntValue(items[1]),
                               NaNDiag(<<"n", "a", "n">> \o DigitChars(items[2].items)))
               [] items[3].s = "N" ->
                    DecSpecial("sNaN", IntValue(items[1]),
                               NaNDiag(<<"n", "a", "n">> \o DigitChars(items[2].items)))
               [] OTHER -> Raise("ValueError")
    ELSE IF IsInt(items[3])
        THEN Dec(IntValue(items[1]),
                 IF Len(items[2].items) = 0 THEN <<"0">>
                 ELSE StripLeadingZeros(DigitChars(items[2].items)),
                 IntValue(items[3]))
    ELSE Raise("ValueError")

\* Decimal(value) for any Python value: a Decimal, or the exception raised.
Decimal(value) ==
    CASE value.t = "str" -> ParseDecimal(value.s)
      [] value.t = "int" -> Dec(IF value.n < 0 THEN 1 ELSE 0,
                                NatToDigits(IF value.n < 0 THEN 0 - value.n ELSE value.n), 0)
      [] value.t = "bool" -> Dec(0, IF value.b THEN <<"1">> ELSE <<"0">>, 0)
      [] value.t = "dec" -> value
      [] value.t = "list" -> DecimalFromSequence(value.items)
      [] OTHER -> Raise("TypeError")

\* str(<Decimal>): the scientific string of the number.
DecimalStr(d) ==
    LET sign == IF d.sign = 1 THEN <<"-">> ELSE <<>>
        n == Len(d.int)
        leftdigits == d.exp + n
        dotplace == IF d.exp <= 0 /\ leftdigits > -6 THEN leftdigits ELSE 1
        intpart == IF dotplace <= 0 THEN <<"0">>
                   ELSE IF dotplace >= n THEN d.int \o Zeros(dotplace - n)
                   ELSE SubSeq(d.int, 1, dotplace)
        fracpart == IF dotplace <= 0 THEN <<".">> \o Zeros(0 - dotplace) \o d.int
                    ELSE IF dotplace >= n THEN <<>>
                    ELSE <<".">> \o SubSeq(d.int, dotplace + 1, n)
        exp == IF leftdigits = dotplace THEN <<>>
               ELSE <<"E">> \o SignedDigits(leftdigits - dotplace)
    IN  CASE d.special = "Infinity" -> sign \o <<"I", "n", "f", "i", "n", "i", "t", "y">>
          [] d.special = "NaN" -> sign \o <<"N", "a", "N">> \o d.int
          [] d.special = "sNaN" -> sign \o <<"s", "N", "a", "N">> \o d.int
          [] OTHER -> sign \o intpart \o fracpart \o exp

\* str(x), as serialize applies it to the price and __repr__ to the name and
\* the id, for a Decimal, None, a str, an int, a bool and a Category member
\* (the text of a list, a dict or another object is not modelled).
PyStr(v) ==
    CASE v.t = "dec" -> Chars(DecimalStr(v))
      [] v.t = "null" -> Str("None")
      [] v.t = "str" -> v
      [] v.t = "int" -> Chars(IF v.n < 0 THEN <<"-">> \o NatToDigits(0 - v.n) ELSE NatToDigits(v.n))
      [] v.t = "bool" -> Str(IF v.b THEN "True" ELSE "False")
      [] v.t = "cat" -> Str("Category." \o v.name)

\* --------------------------------------------------------------- Product
\* A Product instance: the six mapped columns.
Product(id, name, description, price, available, category) ==
    [id |-> id, name |-> name, description |-> description, price |-> price,
     available |-> available, category |-> category]

\* getattr(Category, name): a member, another attribute of the class, or the
\* exception raised.
GetattrCategory(name) ==
    IF ~IsStr(name) THEN Raise("TypeError")
    ELSE IF name.s \in CategoryNames THEN Cat(name.s)
    ELSE IF name.s \in ClassAttributes THEN Obj(name.s)
    ELSE Raise("AttributeError")

\* data.get(key): None for a missing key.
SubscriptGet(data, key) ==
    IF data.t # "dict" THEN Raise("TypeError")
    ELSE IF key \in DOMAIN data.items THEN data.items[key]
    ELSE None

\* data[key]: the value, KeyError for a dict without the key, TypeError for
\* a value that is no dict.
Subscript(data, key) ==
    IF data.t # "dict" THEN Raise("TypeError")
    ELSE IF key \in DOMAIN data.items THEN data.items[key]
    ELSE Raise("KeyError")

\* x.name for the category of a product: only a Category member has one.
CategoryName(category) ==
    IF category.t = "cat" THEN Str(category.name) ELSE Raise("AttributeError")

\* A serialize that emits available as a string.
serialize_available_str(self) ==
    IF Raised(CategoryName(self.category)) THEN CategoryName(self.category)
    ELSE Dict([id |-> self.id,
               name |-> self.name,
               description |-> self.description,
               price |-> PyStr(self.price),
               available |-> PyStr(self.available),
               category |-> CategoryName(self.category)])

\* Product.serialize: the dict, or the exception raised by self.category.name.
serialize(self) ==
    IF Raised(CategoryName(self.category)) THEN CategoryName(self.category)
    ELSE Dict([id |-> self.id,
               name |-> self.name,
               description |-> self.description,
               price |-> PyStr(self.price),
               available |-> self.available,
               category |-> CategoryName(self.category)])

\* The message of the TypeError data[key] raises for a value that is no dict.
SubscriptMessage(data) ==
    CASE data.t = "list" -> "list indices must be integers or slices, not str"
      [] data.t = "str" -> "string indices must be integers, not 'str'"
      [] OTHER -> "'" \o TypeName(data) \o "' object is not subscriptable"

\* The message of the TypeError Decimal(value) raises.
ConversionMessage(value) ==
    "conversion from " \o TypeName(value) \o " to Decimal is not supported"

\* The message of the TypeError getattr(Category, name) raises for a name
\* that is no str.
GetattrMessage(name) == "attribute name must be string, not '" \o TypeName(name) \o "'"

\* What the exception exc carries when the statement of deserialize that
\* reads `key` raises it on the payload data, raw being data[key]: the key
\* for a KeyError, the name for an AttributeError (both error.args[0]), the
\* message, str(error), for a TypeError.
ErrorText(exc, data, key, raw) ==
    CASE exc = "KeyError" -> Str(key)
      [] exc = "AttributeError" -> raw
      [] exc = "TypeError" ->
            Str(IF data.t # "dict" THEN SubscriptMessage(data)
                ELSE IF key = "price" THEN ConversionMessage(raw)
                ELSE GetattrMessage(raw))
      [] OTHER -> Str("")

\* What deserialize's except clauses make of an exception raised in its try
\* block at the statement that reads `key`, value being what the exception
\* carries (error.args[0], or str(error) for a TypeError): KeyError,
\* AttributeError and TypeError become DataValidationError; anything else
\* propagates.
Translate(exc, key, value) ==
    CASE exc = "KeyError" ->
            [raised |-> "DataValidationError", prefix |-> "Missing field: ", arg |-> Str(key)]
      [] exc = "AttributeError" ->
            [raised |-> "DataValidationError", prefix |-> "Invalid attribute: ", arg |-> value]
      [] exc = "TypeError" ->
            [raised |-> "DataValidationError", prefix |-> "Invalid data: ", arg |-> value]
      [] OTHER ->
            [raised |-> exc, prefix |-> "", arg |-> Str("")]

NoError == [raised |-> "", prefix |-> "", arg |-> Str("")]

\* Product.deserialize(self, data): the five assignments in order; the first
\* statement that raises ends the call, and the assignments made before it
\* stay. The result is the product afterwards and the outcome of the call.
deserialize(self, data) ==
    LET name == Subscript(data, "name")
        s1 == [self EXCEPT !.name = name]
        description == Subscript(data, "description")
        s2 == [s1 EXCEPT !.description = description]
        rawPrice == Subscript(data, "price")
        price == IF Raised(rawPrice) THEN rawPrice ELSE Decimal(rawPrice)
        s3 == [s2 EXCEPT !.price = price]
        rawAvailable == Subscript(data, "available")
        s4 == [s3 EXCEPT !.available = Bool(Truthy(rawAvailable))]
        rawCategory == Subscript(data, "category")
        category == IF Raised(rawCategory) THEN rawCategory ELSE GetattrCategory(rawCategory)
        s5 == [s4 EXCEPT !.category = category]
        failed(at, exc, key, raw) ==
            [self |-> at, outcome |-> Translate(exc, key, ErrorText(exc, data, key, raw))]
    IN  IF Raised(name) THEN failed(self, name.exc, "name", name)
        ELSE IF Raised(description) THEN failed(s1, description.exc, "description", description)
        ELSE IF Raised(price) THEN failed(s2, price.exc, "price", rawPrice)
        ELSE IF Raised(rawAvailable) THEN failed(s3, rawAvailable.exc, "available", rawAvailable)
        ELSE IF Raised(category) THEN failed(s4, category.exc, "category", rawCategory)
        ELSE [self |-> s5, outcome |-> NoError]

\* ------------------------------------------------------ session and store
\* One SQLAlchemy session on one connection (the module's global db.session),
\* used by one thread. The caller assigns an id only to an instance it has
\* not stored. The store rejects two statements: the UPDATE that a
\* create on a persistent instance sends (its id set to NULL), and the
\* INSERT or UPDATE of a row that holds None in a column that is NOT NULL
\* (deserialize accepts a payload whose name is None). The failed flush, in
\* a commit or in the autoflush of a read, rolls the transaction back,
\* expires every persistent instance and leaves the session waiting for a
\* rollback that this module never issues: from then on every call that
\* needs the connection raises.
\*
\*   obj[o]      the attributes of Product instance o: what it holds in
\*               memory or, for an attribute the session has expired, what
\*               the next access loads (Expired after a failed commit, when
\*               nothing can be loaded any more)
\*   expired[o]  which attributes of o the session has expired: "all" after
\*               a commit, "id" once deserialize has set the other five,
\*               "none" once they are loaded
\*   ostate[o]   "transient" (never added), "persistent" (in the session, its
\*               row in the store), "detached" (deleted and committed) or
\*               "deleted" (its row gone, put back into the session and
\*               marked for deletion by a delete whose commit raised)
\*   key[o]      the identity key of o, the id its row was inserted under
\*               (0: none), which the session holds it under
\*   flushed     the rows as the session's transaction sees them
\*   committed   the rows as committed
\*   nextId      the next value of the id column's sequence
\*   deleted     the ids whose rows a delete has removed
\*   wedged      a flush has failed: the session waits for a rollback
\*   query       the query the last find_by_* call returned, not yet evaluated
\*   last        the last call: its name, its instance, its argument (for
\*               create, the id the instance carried), its exception
\*   found       what the last call returned, when it read the store
\*   prod, target, data, phase   the inputs of the serialize / deserialize
\*               runs: a product to serialize, the instance deserialize is
\*               called on, the payload, and how far the run is
\*   before      target as it was before deserialize
\*   outcome     the outcome of the last deserialize of such a run
VARIABLES obj, ostate, key, expired, flushed, committed, nextId, deleted, wedged, query,
          last, found, prod, target, before, data, outcome, phase

storeVars == <<obj, ostate, key, expired, flushed, committed, nextId, deleted, wedged, query,
               last, found>>
serdeVars == <<prod, target, before, data, outcome, phase>>
vars == <<obj, ostate, key, expired, flushed, committed, nextId, deleted, wedged, query,
          last, found, prod, target, before, data, outcome, phase>>

Objs == 1..NumProducts

Payload(name, description, price, available, category) ==
    Dict([name |-> name, description |-> description, price |-> price,
          available |-> available, category |-> category])

\* The payloads of the store runs: every instance is built from the first;
\* the others are applied to instances later. The last, its name null, is
\* one deserialize accepts and the store rejects.
FoodPayload == Payload(Str("Hat"), Str("Red"), Str("19.99"), Bool(TRUE), Str("FOOD"))
ToolsPayload == Payload(Str("Saw"), Str("Steel"), Str("5"), Bool(FALSE), Str("TOOLS"))
NamelessPayload == Payload(None, Str("Red"), Str("19.99"), Bool(TRUE), Str("FOOD"))
StorePayloads == {ToolsPayload, NamelessPayload}

\* Product(): every attribute unset.
NewProduct == Product(None, None, None, None, None, None)

\* An attribute the session has expired, and an instance with every
\* attribute expired.
Expired == [t |-> "expired"]
ExpiredProduct == Product(Expired, Expired, Expired, Expired, Expired, Expired)

\* The row of a persistent instance: the attributes it holds.
Row(self) == self

\* The columns name, description and price are NOT NULL and have no default:
\* the store rejects a row that holds None in one of them. (available and
\* category are NOT NULL with a default; every row of the store runs holds a
\* bool and a member there.)
Accepted(row) ==
    /\ row.name # None
    /\ row.description # None
    /\ row.price # None

Persistent == {o \in Objs : ostate[o] = "persistent"}

Rejected(S) == \E o \in S : ~Accepted(Row(obj[o]))

\* The ids of the rows.
Ids(rows) == DOMAIN rows

\* The session's flush of pending changes: an UPDATE of the row of every
\* persistent instance with the attributes it holds in memory.
Flush(rows) ==
    [i \in DOMAIN rows |->
        IF \E o \in Objs : ostate[o] = "persistent" /\ obj[o].id = Int_(i)
        THEN Row(obj[CHOOSE o \in Objs : ostate[o] = "persistent" /\ obj[o].id = Int_(i)])
        ELSE rows[i]]

\* The session's autoflush, which every SELECT starts with, on the instances:
\* an instance with pending changes is written by an UPDATE, which loads its
\* id; an expired instance without changes stays expired.
Autoflushed(e) == [o \in Objs |-> IF e[o] = "id" THEN "none" ELSE e[o]]

\* A SELECT that loads the expired attributes of the instances in S, after
\* its autoflush.
Loaded(e, S) == [o \in Objs |-> IF o \in S THEN "none" ELSE Autoflushed(e)[o]]

\* The session's commit expires every attribute of every persistent
\* instance (expire_on_commit), and so does the rollback of a failed one.
ExpiredOnCommit(st) == [o \in Objs |-> IF st[o] = "persistent" THEN "all" ELSE "none"]

\* INSERT of a row under id i.
InsertRow(rows, i, row) == [j \in DOMAIN rows \cup {i} |-> IF j = i THEN row ELSE rows[j]]

\* DELETE of the row with id i.
DeleteRow(rows, i) == [j \in DOMAIN rows \ {i} |-> rows[j]]

Call(op, o, arg, raised) == [op |-> op, o |-> o, arg |-> arg, raised |-> raised]

NoResult == [one |-> None, many |-> {}]

\* The instances the session holds under the id i (one at most).
Holders(i) == {o \in Objs : ostate[o] \in {"persistent", "deleted"} /\ key[o] = i}

\* Product.find(product_id): query.get returns the instance the session
\* holds under that id, as it is when nothing of it is expired, without a
\* statement (be it marked for deletion); else it selects, to load the
\* instance or to look for the row, after an autoflush, which raises when
\* the store rejects a pending change. In a session that waits for a
\* rollback the SELECT raises.
find(product_id) ==
    IF \E o \in Holders(product_id) : expired[o] = "none"
    THEN obj[CHOOSE o \in Holders(product_id) : TRUE]
    ELSE IF wedged THEN Raise("PendingRollbackError")
    ELSE IF Rejected(Persistent) THEN Raise("IntegrityError")
    ELSE IF Holders(product_id) # {} THEN obj[CHOOSE o \in Holders(product_id) : TRUE]
    ELSE IF product_id \in Ids(Flush(flushed)) THEN Flush(flushed)[product_id]
    ELSE None

\* cls.query.filter(column == value): a Query object, which reads nothing
\* until it is iterated. op is the method that built it.
Query(op, column, value) == [t |-> "query", op |-> op, column |-> column, value |-> value]

NoQuery == Query("", "", None)

\* A finite Decimal without the trailing zeros of its coefficient: the
\* digits and the exponent that determine its absolute value.
Normalized(d) ==
    LET nz == {i \in 1..Len(d.int) : d.int[i] # "0"}
        m == CHOOSE i \in nz : \A j \in nz : i >= j
    IN  IF nz = {} THEN <<<<"0">>, 0>>
        ELSE <<SubSeq(d.int, 1, m), d.exp + Len(d.int) - m>>

\* price == value as the store (PostgreSQL, through psycopg2) evaluates it:
\* numeric equality of two finite numbers; an infinity or a NaN is sent and
\* kept as NaN, which equals no finite number and equals NaN.
NumEq(a, b) ==
    IF a.special # "" \/ b.special # "" THEN a.special # "" /\ b.special # ""
    ELSE /\ Normalized(a) = Normalized(b)
         /\ a.sign = b.sign \/ Normalized(a)[1] = <<"0">>

\* The WHERE clause of a query on a row.
Matches(row, q) ==
    CASE q.column = "name" -> row.name = q.value
      [] q.column = "price" -> NumEq(row.price, q.value)
      [] q.column = "available" -> row.available = q.value
      [] q.column = "category" -> row.category = q.value
      [] q.column = "" -> TRUE

\* The rows a query selects.
Select(rows, q) == {rows[i] : i \in {j \in Ids(rows) : Matches(rows[j], q)}}

\* Product.all(): cls.query.all(), evaluated at once on the rows the session
\* sees after its autoflush.
all == Select(Flush(flushed), Query("all", "", None))

\* Product.find_by_name(name)
find_by_name(name) == Query("find_by_name", "name", name)

\* Product.find_by_price(price): a str is stripped of spaces and double
\* quotes and converted; the result is the query, or the exception Decimal
\* raised.
find_by_price(price) ==
    IF IsStr(price)
    THEN LET price_value == Decimal(Chars(StripChars(CharsOf(price.s), {" ", "\""})))
         IN  IF Raised(price_value) THEN price_value
             ELSE Query("find_by_price", "price", price_value)
    ELSE Query("find_by_price", "price", price)

\* Product.find_by_availability(available)
find_by_availability(available) == Query("find_by_availability", "available", available)

\* Product.find_by_category(category)
find_by_category(category) == Query("find_by_category", "category", category)

\* Product.__repr__: the name and the id in a string.
__repr__(self) ==
    Str("<Product " \o PyStr(self.name).s \o " id=[" \o PyStr(self.id).s \o "]>")

\* A create that does not clear the id the instance carries.
CreatedIdKeepsPreset(self, seq) == IF Truthy(self.id) THEN self.id.n ELSE seq

\* The id an instance carries after a successful create: create clears the
\* id it had, so the INSERT takes the next value of the sequence.
CreatedId(self, seq) == seq

\* A test for None alone, which lets the id 0 through.
EmptyIdNoneOnly(self) == self.id = None

\* update's test `not self.id`.
EmptyId(self) == ~Truthy(self.id)

\* ---------------------------------------------------------------- actions
\* A flush the store rejects, in a commit or in the autoflush of a read: the
\* transaction is rolled back, every persistent instance expired, and the
\* session left waiting for a rollback. now is what the instances hold in
\* memory at that point, st their states after the rollback.
RolledBack(now, st) ==
    /\ obj' = [q \in Objs |-> IF st[q] = "persistent" THEN ExpiredProduct ELSE now[q]]
    /\ expired' = ExpiredOnCommit(st)
    /\ flushed' = committed
    /\ wedged' = TRUE

\* Product.create on a transient instance: the id is cleared, the instance
\* added and the session committed: the pending changes of the stored
\* instances are flushed, then the row inserted under a fresh id. When the
\* store rejects an UPDATE, or the INSERT (which has taken its id from the
\* sequence by then), the commit fails and the instance stays out of the
\* session, its id cleared. In a session that waits for a rollback the
\* commit raises, the id cleared and the instance pending in the session,
\* where it is to every call of this module what a transient one is.
CreateTransient(o) ==
    /\ ostate[o] = "transient"
    /\ IF wedged
       THEN /\ obj' = [obj EXCEPT ![o].id = None]
            /\ last' = Call("create", o, obj[o].id, "PendingRollbackError")
            /\ UNCHANGED <<ostate, key, expired, flushed, committed, nextId, wedged>>
       ELSE /\ nextId <= MaxId
            /\ IF Rejected(Persistent \cup {o})
               THEN /\ RolledBack([obj EXCEPT ![o].id = None], ostate)
                    /\ nextId' = IF Rejected(Persistent) THEN nextId ELSE nextId + 1
                    /\ last' = Call("create", o, obj[o].id, "IntegrityError")
                    /\ UNCHANGED <<ostate, key, committed>>
               ELSE /\ obj' = [obj EXCEPT ![o].id = Int_(CreatedId(obj[o], nextId))]
                    /\ ostate' = [ostate EXCEPT ![o] = "persistent"]
                    /\ key' = [key EXCEPT ![o] = obj'[o].id.n]
                    /\ expired' = ExpiredOnCommit(ostate')
                    /\ flushed' = InsertRow(Flush(flushed), obj'[o].id.n, Row(obj'[o]))
                    /\ committed' = flushed'
                    /\ nextId' = nextId + 1
                    /\ last' = Call("create", o, obj[o].id, "")
                    /\ UNCHANGED wedged
    /\ found' = NoResult
    /\ UNCHANGED serdeVars
    /\ UNCHANGED <<deleted, query>>

\* Product.create on a persistent instance: the name is read for the log
\* and the id cleared in memory (either loads the instance when it is
\* expired), add does nothing, and the commit's flush sends UPDATE ... SET
\* id = NULL, which fails (in the unit of work or in the store). The
\* transaction is rolled back, every persistent instance expired, and the
\* session left waiting for a rollback. In a session that already waits, the
\* read of the expired name or id raises before anything is assigned.
CreatePersistent(o) ==
    /\ ostate[o] = "persistent"
    /\ IF wedged
       THEN /\ last' = Call("create", o, obj[o].id, "PendingRollbackError")
            /\ UNCHANGED <<obj, expired, flushed, wedged>>
       ELSE /\ \E exc \in {"IntegrityError", "FlushError"} :
                    last' = Call("create", o, obj[o].id, exc)
            /\ RolledBack(obj, ostate)
    /\ found' = NoResult
    /\ UNCHANGED serdeVars
    /\ UNCHANGED <<ostate, key, committed, nextId, deleted, query>>

\* Product.create on an instance whose row was deleted, in the session or
\* not: the id is cleared, then session.add refuses the deleted instance
\* (InvalidRequestError).
CreateDetached(o) ==
    /\ ostate[o] \in {"detached", "deleted"}
    /\ obj' = [obj EXCEPT ![o].id = None]
    /\ last' = Call("create", o, obj[o].id, "InvalidRequestError")
    /\ found' = NoResult
    /\ UNCHANGED serdeVars
    /\ UNCHANGED <<ostate, key, expired, flushed, committed, nextId, deleted, wedged, query>>

Create(o) == CreateTransient(o) \/ CreatePersistent(o) \/ CreateDetached(o)

\* Product.update: the name is read for the log and the id tested; reading
\* an expired one raises in a session that waits for a rollback (else it
\* loads the instance, just before the commit). DataValidationError for an
\* empty id, before anything is sent; else the session's commit, which
\* flushes every pending change and expires every persistent instance, or
\* fails when the store rejects one of the changes.
Update(o) ==
    /\ IF obj[o].id = Expired
       THEN /\ last' = Call("update", o, None, "PendingRollbackError")
            /\ UNCHANGED <<obj, expired, flushed, committed, wedged>>
       ELSE IF EmptyId(obj[o])
       THEN /\ last' = Call("update", o, None, "DataValidationError")
            /\ UNCHANGED <<obj, expired, flushed, committed, wedged>>
       ELSE IF wedged
       THEN /\ last' = Call("update", o, None, "PendingRollbackError")
            /\ UNCHANGED <<obj, expired, flushed, committed, wedged>>
       ELSE IF Rejected(Persistent)
       THEN /\ RolledBack(obj, ostate)
            /\ last' = Call("update", o, None, "IntegrityError")
            /\ UNCHANGED committed
       ELSE /\ flushed' = Flush(flushed)
            /\ committed' = flushed'
            /\ expired' = ExpiredOnCommit(ostate)
            /\ last' = Call("update", o, None, "")
            /\ UNCHANGED <<obj, wedged>>
    /\ found' = NoResult
    /\ UNCHANGED serdeVars
    /\ UNCHANGED <<ostate, key, nextId, deleted, query>>

\* Product.delete on a persistent instance: the pending changes of the
\* other stored instances are flushed, its row is deleted (the flush loads
\* what is expired of it) and the session committed; the instance leaves the
\* session with its attributes. When the store rejects one of the changes
\* the commit fails and nothing is deleted. In a session that waits for a
\* rollback the read of the expired name or the commit raises and nothing
\* is deleted.
DeletePersistent(o) ==
    /\ ostate[o] = "persistent"
    /\ IF wedged
       THEN /\ last' = Call("delete", o, None, "PendingRollbackError")
            /\ UNCHANGED <<obj, flushed, committed, ostate, key, expired, deleted, wedged>>
       ELSE IF Rejected(Persistent \ {o})
       THEN /\ RolledBack(obj, ostate)
            /\ last' = Call("delete", o, None, "IntegrityError")
            /\ UNCHANGED <<committed, ostate, key, deleted>>
       ELSE /\ flushed' = DeleteRow(Flush(flushed), obj[o].id.n)
            /\ committed' = flushed'
            /\ ostate' = [ostate EXCEPT ![o] = "detached"]
            /\ expired' = ExpiredOnCommit(ostate')
            /\ deleted' = deleted \cup {obj[o].id.n}
            /\ last' = Call("delete", o, None, "")
            /\ UNCHANGED <<obj, key, wedged>>
    /\ found' = NoResult
    /\ UNCHANGED serdeVars
    /\ UNCHANGED <<nextId, query>>

\* Product.delete on an instance that was never added: session.delete
\* refuses it (InvalidRequestError) and nothing is committed.
DeleteTransient(o) ==
    /\ ostate[o] = "transient"
    /\ last' = Call("delete", o, None, "InvalidRequestError")
    /\ found' = NoResult
    /\ UNCHANGED serdeVars
    /\ UNCHANGED <<obj, ostate, key, expired, flushed, committed, nextId, deleted, wedged, query>>

\* Product.delete on an instance whose row is already gone: session.delete
\* puts it back into the session, under its key, and marks it for deletion;
\* the commit flushes the pending changes, sends a DELETE that matches no
\* row, and the instance leaves the session again. When the store rejects a
\* pending change, the rollback of the failed commit takes the mark back
\* and the instance stays in the session, persistent and expired like the
\* others. In a session that waits for a rollback the commit raises and the
\* instance stays in the session, marked.
DeleteDetached(o) ==
    /\ ostate[o] \in {"detached", "deleted"}
    /\ IF wedged
       THEN /\ ostate' = [ostate EXCEPT ![o] = "deleted"]
            /\ last' = Call("delete", o, None, "PendingRollbackError")
            /\ UNCHANGED <<obj, expired, flushed, committed, wedged>>
       ELSE IF Rejected(Persistent)
       THEN /\ ostate' = [ostate EXCEPT ![o] = "persistent"]
            /\ RolledBack(obj, ostate')
            /\ last' = Call("delete", o, None, "IntegrityError")
            /\ UNCHANGED committed
       ELSE /\ ostate' = [ostate EXCEPT ![o] = "detached"]
            /\ flushed' = Flush(flushed)
            /\ committed' = flushed'
            /\ expired' = ExpiredOnCommit(ostate')
            /\ last' = Call("delete", o, None, "")
            /\ UNCHANGED <<obj, wedged>>
    /\ found' = NoResult
    /\ UNCHANGED serdeVars
    /\ UNCHANGED <<key, nextId, deleted, query>>

Delete(o) == DeletePersistent(o) \/ DeleteTransient(o) \/ DeleteDetached(o)

\* product.deserialize(payload) on an instance, stored or not: the five
\* attributes are assigned without a load; of an expired instance the id
\* alone stays expired.
Deserialize(o, payload) ==
    /\ LET result == deserialize(obj[o], payload)
       IN  /\ obj' = [obj EXCEPT ![o] = result.self]
           /\ last' = Call("deserialize", o, None, result.outcome.raised)
    /\ expired' = [expired EXCEPT ![o] = IF @ = "all" THEN "id" ELSE @]
    /\ found' = NoResult
    /\ UNCHANGED serdeVars
    /\ UNCHANGED <<ostate, key, flushed, committed, nextId, deleted, wedged, query>>

\* The caller assigns product.id = v on an instance it has not stored.
SetId(o, v) ==
    /\ ostate[o] = "transient"
    /\ obj' = [obj EXCEPT ![o].id = Int_(v)]
    /\ last' = Call("set_id", o, None, "")
    /\ found' = NoResult
    /\ UNCHANGED serdeVars
    /\ UNCHANGED <<ostate, key, expired, flushed, committed, nextId, deleted, wedged, query>>

\* A read of the store by the call op with the argument arg, which loads
\* what is expired of the instances in S and returns result: the SELECT
\* starts with an autoflush, which fails when the store rejects a pending
\* change; in a session that waits for a rollback the read raises.
Select_(op, o, arg, S, result) ==
    /\ IF wedged
       THEN /\ found' = NoResult
            /\ last' = Call(op, o, arg, "PendingRollbackError")
            /\ UNCHANGED <<obj, expired, flushed, wedged>>
       ELSE IF Rejected(Persistent)
       THEN /\ found' = NoResult
            /\ last' = Call(op, o, arg, "IntegrityError")
            /\ RolledBack(obj, ostate)
       ELSE /\ found' = result
            /\ last' = Call(op, o, arg, "")
            /\ flushed' = Flush(flushed)
            /\ expired' = Loaded(expired, S)
            /\ UNCHANGED <<obj, wedged>>
    /\ UNCHANGED <<ostate, key, committed, nextId, deleted, query>>
    /\ UNCHANGED serdeVars

\* A call op on instance o that reads nothing from the store and returns
\* result.
InMemory(op, o, arg, result) ==
    /\ found' = result
    /\ last' = Call(op, o, arg, "")
    /\ UNCHANGED <<obj, ostate, key, expired, flushed, committed, nextId, deleted, wedged, query>>
    /\ UNCHANGED serdeVars

\* Product.find(i): an instance the session holds is returned, as it is when
\* nothing of it is expired, else after the SELECT that loads it; for an id
\* the session does not hold it selects.
Find(i) ==
    IF \E o \in Holders(i) : expired[o] = "none"
    THEN InMemory("find", 0, Int_(i), [one |-> find(i), many |-> {}])
    ELSE Select_("find", 0, Int_(i), Holders(i), [one |-> find(i), many |-> {}])

\* Product.all(): the query is evaluated in the call: autoflush, then a
\* SELECT, whose rows load what is expired of the instances they belong to.
All == Select_("all", 0, None, Persistent, [one |-> None, many |-> all])

\* A read of the attributes of instance o, by product.serialize() (the id
\* first) or repr(product) (the name, then the id), result being what the
\* function returns for the attributes: what is expired of a persistent
\* instance is loaded by a SELECT.
Read(op, o, result) ==
    IF ostate[o] = "persistent" /\ (wedged \/ expired[o] # "none")
    THEN Select_(op, o, None, {o}, [one |-> result, many |-> {}])
    ELSE InMemory(op, o, None, [one |-> result, many |-> {}])

Serialize(o) == Read("serialize", o, serialize(obj[o]))

Repr(o) == Read("__repr__", o, __repr__(obj[o]))

\* A find_by_* call that returned q, a query or the exception raised: the
\* caller holds the query; nothing is read.
Filter(op, arg, q) ==
    /\ IF Raised(q)
       THEN /\ last' = Call(op, 0, arg, q.exc)
            /\ UNCHANGED query
       ELSE /\ last' = Call(op, 0, arg, "")
            /\ query' = q
    /\ found' = NoResult
    /\ UNCHANGED <<obj, ostate, key, expired, flushed, committed, nextId, deleted, wedged>>
    /\ UNCHANGED serdeVars

FindByName(name) == Filter("find_by_name", name, find_by_name(name))

FindByPrice(price) == Filter("find_by_price", price, find_by_price(price))

FindByAvailability(available) ==
    Filter("find_by_availability", available, find_by_availability(available))

FindByCategory(category) == Filter("find_by_category", category, find_by_category(category))

\* The caller iterates the query it holds, now or after other calls, once
\* or again: autoflush, then a SELECT, whose rows load what is expired of
\* the instances they belong to.
Iterate ==
    /\ query # NoQuery
    /\ Select_("iterate", 0, None, {o \in Persistent : Matches(Row(obj[o]), query)},
               [one |-> None, many |-> Select(Flush(flushed), query)])

\* The serialize / deserialize inputs while the store runs.
SerdeIdle ==
    /\ prod = NewProduct
    /\ target = NewProduct
    /\ before = NewProduct
    /\ data = None
    /\ outcome = NoError
    /\ phase = "idle"

\* After construction: the store empty, the sequence at 1, every instance
\* built in memory from a valid payload and not yet added.
Init ==
    /\ obj = [o \in Objs |-> deserialize(NewProduct, FoodPayload).self]
    /\ ostate = [o \in Objs |-> "transient"]
    /\ key = [o \in Objs |-> 0]
    /\ expired = [o \in Objs |-> "none"]
    /\ flushed = <<>>
    /\ committed = <<>>
    /\ nextId = 1
    /\ deleted = {}
    /\ wedged = FALSE
    /\ query = NoQuery
    /\ last = Call("init", 0, None, "")
    /\ found = NoResult
    /\ SerdeIdle

\* The arguments of the find_by_* calls.
QueryNames == {Str("Saw")}
QueryPrices == {Str(" \"19.990\" "), Str("abc")}
QueryAvailabilities == {Bool(TRUE)}
QueryCategories == {Cat("FOOD"), Cat("TOOLS")}

Next ==
    \/ \E o \in Objs : Create(o)
    \/ \E o \in Objs : Update(o)
    \/ \E o \in Objs : Delete(o)
    \/ \E o \in Objs, d \in StorePayloads : Deserialize(o, d)
    \/ \E o \in Objs, v \in 0..MaxPreset : SetId(o, v)
    \/ \E i \in 1..MaxId : Find(i)
    \/ \E o \in Objs : Serialize(o)
    \/ \E o \in Objs : Repr(o)
    \/ All
    \/ \E name \in QueryNames : FindByName(name)
    \/ \E price \in QueryPrices : FindByPrice(price)
    \/ \E available \in QueryAvailabilities : FindByAvailability(available)
    \/ \E category \in QueryCategories : FindByCategory(category)
    \/ Iterate

Spec == Init /\ [][Next]_vars

\* ------------------------------------------- serialize / deserialize runs
\* The characters price strings are made of, and every string of at most
\* MaxPriceLen of them, with some longer ones.
PriceAlphabet == {"0", "1", ".", "-", "E"}

PriceStrings ==
    UNION {[1..n -> PriceAlphabet] : n \in 0..MaxPriceLen}
    \cup {<<"1", "9", ".", "9", "9">>, <<" ", "1", ".", "5", " ">>, <<"1", "_", "0">>,
          <<"1", "e", "+", "2">>, <<"N", "a", "N">>, <<"I", "n", "f">>, <<"1", "a">>,
          <<"\t", "1", "\n">>, <<"", "1", "">>, <<"۱", ".", "৫">>}

Absent == [t |-> "absent"]

\* The values a payload may hold under each key (Absent: the key is missing).
NameValues == {Str("Hat"), Absent}
DescriptionValues == {Str("Red"), Absent}
PriceValues ==
    {Chars(c) : c \in PriceStrings}
    \cup {Str("abc"), None, Int_(3), Bool(TRUE), List(<<Int_(1)>>),
          List(<<Int_(0), List(<<Int_(1), Int_(5)>>), Int_(-1)>>),
          List(<<Int_(0), List(<<Int_(1)>>), Str("x")>>), Absent}
AvailableValues == {Bool(FALSE), Str("false"), None, Dec(0, <<"0">>, -2), Absent}
CategoryValues ==
    {Str(n) : n \in CategoryNames}
    \cup {Str("BOGUS"), Str("food"), Str("__doc__"), Str("__class__"), Int_(2), Absent}

PayloadKeys == {"name", "description", "price", "available", "category"}

\* The dict holding the given values, without the keys whose value is Absent.
PayloadOf(values) ==
    Dict([k \in {j \in PayloadKeys : values[j] # Absent} |-> values[k]])

Payloads ==
    {PayloadOf([name |-> n, description |-> d, price |-> p, available |-> a, category |-> c]) :
        n \in NameValues, d \in DescriptionValues, p \in PriceValues,
        a \in AvailableValues, c \in CategoryValues}

\* Finite Decimals: either sign, a coefficient of at most MaxDigits digits
\* without leading zeros, an exponent in -MaxNegExp..MaxExp.
Coefficients ==
    {c \in UNION {[1..n -> {"0", "1", "9"}] : n \in 1..MaxDigits} : Len(c) = 1 \/ c[1] # "0"}

Decimals == {Dec(sg, c, e) : sg \in {0, 1}, c \in Coefficients, e \in (0 - MaxNegExp)..MaxExp}

\* Valid products: the attributes hold values of the columns' types.
ValidProducts ==
    {Product(i, n, Str("Red"), p, Bool(a), c) :
        i \in {None, Int_(1)}, n \in {Str("Hat"), Str("")}, p \in Decimals,
        a \in BOOLEAN, c \in Category}

\* The instances deserialize is called on: a new one, and one that holds a
\* stored product's attributes.
Targets == {NewProduct, Product(Int_(7), Str("Old"), Str("Worn"), Dec(0, <<"5">>, 0), Bool(TRUE), Cat("CLOTHS"))}

\* The store while serialize / deserialize run.
StoreIdle ==
    /\ obj = [o \in Objs |-> NewProduct]
    /\ ostate = [o \in Objs |-> "transient"]
    /\ key = [o \in Objs |-> 0]
    /\ expired = [o \in Objs |-> "none"]
    /\ flushed = <<>>
    /\ committed = <<>>
    /\ nextId = 1
    /\ deleted = {}
    /\ wedged = FALSE
    /\ query = NoQuery
    /\ last = Call("init", 0, None, "")
    /\ found = NoResult

\* A run starts with a payload to deserialize, or with a product to
\* serialize and deserialize again.
SerdeInit ==
    /\ StoreIdle
    /\ target \in Targets
    /\ before = target
    /\ outcome = NoError
    /\ \/ phase = "payload" /\ data \in Payloads /\ prod = NewProduct
       \/ phase = "product" /\ data = None /\ prod \in ValidProducts

\* target.deserialize(data), on a payload or on what serialize returned.
DeserializeData ==
    /\ phase \in {"payload", "serialized"}
    /\ target' = deserialize(target, data).self
    /\ outcome' = deserialize(target, data).outcome
    /\ phase' = IF phase = "payload" THEN "deserialized" ELSE "roundtrip"
    /\ UNCHANGED <<prod, before, data>>
    /\ UNCHANGED storeVars

\* data = prod.serialize()
SerializeProd ==
    /\ phase = "product"
    /\ data' = serialize(prod)
    /\ phase' = "serialized"
    /\ UNCHANGED <<prod, target, before, outcome>>
    /\ UNCHANGED storeVars

SerdeNext == DeserializeData \/ SerializeProd

SerdeSpec == SerdeInit /\ [][SerdeNext]_vars

\* ----------------------------------------------------------------- claims
Created(o) == last'.op = "create" /\ last'.o = o /\ last'.raised = ""

\* C1: once create gave a product the id i and delete removed it, find(i)
\* returns None and does not raise, whatever else was created, changed or
\* deleted before, between or after (the sequence gives no id twice, so no
\* later create is given i).
C1_FindAfterDeleteNotFound ==
    \A i \in deleted :
        /\ find(i) = None
        /\ (last.op = "find" /\ last.arg = Int_(i)) => (found.one = None /\ last.raised = "")

\* C2, as claimed: after a successful create on a product whose id was
\* pre-set to v, the id it carries is distinct from v.
C2_CreateIdDistinctFromPreset ==
    (last.op = "create" /\ last.raised = "" /\ last.arg # None) => obj[last.o].id # last.arg

\* C2, amended: a successful create, whatever id the product carried, leaves
\* it with the id the store assigned, the next value of the sequence, which is
\* the id of no row stored before; the row is committed under that id and
\* find on it returns the product.
C2_CreateAssignsStoreId ==
    [][\A o \in Objs : Created(o) =>
            /\ obj'[o].id = Int_(nextId)
            /\ nextId \notin Ids(committed)
            /\ Ids(committed') = Ids(committed) \cup {nextId}
            /\ committed'[nextId] = Row(obj'[o])
            /\ find(obj[o].id.n)' = obj'[o]]_vars

\* A product whose id was pre-set to 1 was created while a row was stored:
\* it carries the store's id 2, and find returns it.
C2_Witness ==
    /\ last.op = "create"
    /\ last.raised = ""
    /\ last.arg = Int_(1)
    /\ obj[last.o].id = Int_(2)
    /\ find(2) = obj[last.o]
    /\ 1 \in Ids(committed)

\* C3: update on a product whose id is empty raises DataValidationError and
\* changes nothing: the rows, committed and as the session sees them, are
\* what they were, whatever changes were pending in memory.
C3_UpdateEmptyIdRejected ==
    [][\A o \in Objs : (last'.op = "update" /\ last'.o = o /\ obj[o].id # Expired /\ ~Truthy(obj[o].id)) =>
            /\ last'.raised = "DataValidationError"
            /\ committed' = committed
            /\ flushed' = flushed
            /\ expired' = expired
            /\ wedged' = wedged
            /\ obj' = obj]_vars

\* An update was rejected for the id 0 while a stored product held a change
\* in memory that is not in its row.
C3_Witness ==
    /\ last.op = "update"
    /\ last.raised = "DataValidationError"
    /\ obj[last.o].id = Int_(0)
    /\ ~wedged
    /\ \E q \in Objs : ostate[q] = "persistent" /\ committed[obj[q].id.n] # Row(obj[q])

\* C8: once the store has assigned a product's id, no create, update, delete
\* or deserialize on it or on another product changes or clears it. (An id
\* the session has expired is no changed id: the row keeps it, and the
\* instance holds none until it is loaded.)
C8_IdNeverReassigned ==
    [][\A o \in Objs :
            (ostate[o] # "transient" /\ last'.op # "set_id" /\ obj[o].id # Expired)
                => obj'[o].id \in {obj[o].id, Expired}]_vars

\* C9: after any sequence of calls, find_by_category(c) reads and changes
\* nothing, and the query it returns gives, when it is iterated, exactly the
\* stored products whose category is c, and raises nothing; when no change
\* is pending, these are the committed rows whose category is c. The
\* iteration leaves the committed rows and the instances as they were.
C9_FindByCategoryExact ==
    [][/\ last'.op = "find_by_category" =>
            /\ query' = Query("find_by_category", "category", last'.arg)
            /\ <<obj, ostate, expired, flushed, committed>>'
                    = <<obj, ostate, expired, flushed, committed>>
       /\ (last'.op = "iterate" /\ query.op = "find_by_category") =>
            /\ last'.raised = ""
            /\ found'.many = {obj[o] : o \in {q \in Persistent : obj[q].category = query.value}}
            /\ (\A q \in Persistent : committed[obj[q].id.n] = Row(obj[q]))
                    => found'.many = {committed[i] : i \in {j \in Ids(committed) :
                                                              committed[j].category = query.value}}
            /\ committed' = committed
            /\ obj' = obj
            /\ ostate' = ostate]_vars

\* C4: deserialize(serialize(p)) of a valid product p succeeds, gives the
\* target p's name, description, price, available and category, and leaves
\* the target's id as it was.
C4_RoundTrip ==
    phase = "roundtrip" =>
        /\ outcome = NoError
        /\ target.name = prod.name
        /\ target.description = prod.description
        /\ target.price = prod.price
        /\ target.available = prod.available
        /\ target.category = prod.category
        /\ target.id = before.id

\* A product with the id 1 and a negative price that prints in scientific
\* notation went through serialize and deserialize into a target with the
\* id 7.
C4_Witness ==
    /\ phase = "roundtrip"
    /\ prod.id = Int_(1)
    /\ target.id = Int_(7)
    /\ prod.available = Bool(FALSE)
    /\ prod.price = Dec(1, <<"1">>, 0 - MaxNegExp)
    /\ data.items.price = Str("-1E-7")

\* C5: deserialize is all-or-nothing: when it succeeds the five attributes
\* are set from the payload, and when it fails the target holds none of the
\* payload's values: it is as it was before the call.
C5_DeserializeAllOrNothing ==
    phase = "deserialized" =>
        /\ outcome.raised = "" =>
                /\ DOMAIN data.items = PayloadKeys
                /\ target.name = data.items.name
                /\ target.description = data.items.description
                /\ target.available = Bool(Truthy(data.items.available))
        /\ outcome.raised # "" => target = before

\* C6: a payload with all five keys whose price does not convert to a
\* Decimal fails with DataValidationError and no other exception.
C6_MalformedPriceIsValidationError ==
    (/\ phase = "deserialized"
     /\ data.t = "dict"
     /\ DOMAIN data.items = PayloadKeys
     /\ Raised(Decimal(data.items.price)))
        => outcome.raised = "DataValidationError"

\* C7: after a successful deserialize the category is one of the six
\* members, and a payload whose category is a string that names none of
\* them is never accepted.
C7_CategoryIsMember ==
    phase = "deserialized" =>
        /\ outcome.raised = "" => target.category \in Category
        /\ (/\ data.t = "dict"
            /\ "category" \in DOMAIN data.items
            /\ IsStr(data.items.category)
            /\ data.items.category \notin {Str(n) : n \in CategoryNames})
                => outcome.raised # ""

KeyOrder == <<"name", "description", "price", "available", "category">>

\* The place in KeyOrder of the first key the payload lacks.
FirstMissing(d) ==
    CHOOSE i \in 1..Len(KeyOrder) :
        /\ KeyOrder[i] \notin DOMAIN d.items
        /\ \A j \in 1..(i - 1) : KeyOrder[j] \in DOMAIN d.items

MissingFieldNamed(i) ==
    /\ outcome.raised = "DataValidationError"
    /\ outcome.prefix = "Missing field: "
    /\ outcome.arg = Str(KeyOrder[i])

\* C10, as claimed: a payload that lacks a required key fails with a
\* DataValidationError naming the first key it lacks. Stated here on the
\* payloads whose price, when present, is no unparseable string or list (the
\* cases of C6), where it fails all the same.
C10_MissingKeyNamed ==
    (/\ phase = "deserialized"
     /\ data.t = "dict"
     /\ DOMAIN data.items # PayloadKeys
     /\ "price" \in DOMAIN data.items =>
            Decimal(data.items.price) \notin {Raise("InvalidOperation"), Raise("ValueError")})
        => MissingFieldNamed(FirstMissing(data))

\* C10, amended: a payload that lacks a required key fails with a
\* DataValidationError naming the first key it lacks, provided the price, if
\* it comes before that key, converts to a Decimal: a price that does not
\* convert is the first violation met, and is what is raised.
C10_FirstMissingKeyNamed ==
    (/\ phase = "deserialized"
     /\ data.t = "dict"
     /\ DOMAIN data.items # PayloadKeys
     /\ (FirstMissing(data) > 3 => ~Raised(Decimal(data.items.price))))
        => MissingFieldNamed(FirstMissing(data))

\* A payload without available and category, its price a valid string, was
\* refused for the missing available; name, description and price were set.
C10_Witness ==
    /\ phase = "deserialized"
    /\ DOMAIN data.items = {"name", "description", "price"}
    /\ data.items.price = Chars(<<"1", ".", "0">>)
    /\ MissingFieldNamed(4)

====
